---- MODULE Spec2Model ----
(***************************************************************************)
(* A model of the premiscale autoscaling controller:                       *)
(*   - controller/daemon.py   start(): health check, queues, registration, *)
(*                            worker submission and the wait loop;         *)
(*   - hypervisor/_base.py    Libvirt: connection string, open, close and  *)
(*                            the scoped guard;                            *)
(*   - config/v1alpha1.py     construction of Connection, Certificates,    *)
(*                            Platform and Network.                        *)
(* Strings whose characters matter are sequences of one-character strings. *)
(* An optional value is a sequence of length at most one: None is <<>>.    *)
(***************************************************************************)
EXTENDS Integers, Sequences, FiniteSets, TLC

VARIABLES
    \* ---- controller/daemon.py: start() ----
    pc,                        \* position of the main thread in start()
    healthcheck,               \* state of the thread running healthcheck.run
    queues,                    \* set of queue names created by the manager
    autoscaling_action_queue,  \* number of actions outstanding on the action queue
    actionsQueueMaxSize,       \* Platform.actionsQueueMaxSize of controller_config
    registration,              \* value returned by register()
    registerCalls,             \* number of calls of register()
    submitted,                 \* worker -> number of executor.submit calls for it
    platformArgs,              \* arguments the Platform worker was submitted with
    worker,                    \* worker -> state of its future
    waitIdx,                   \* index of the wait loop over processes
    raising,                   \* an exception is propagating out of start()
    returned,                  \* how start() ended
    \* ---- hypervisor/_base.py: Libvirt ----
    protocol, hypervisor, user, address, port, readonly,
    connection_string,
    connection,                \* self._connection: 0 is None, h > 0 a handle
    handles,                   \* number of handles obtained so far
    released,                  \* handle -> number of times it was released
    dropped,                   \* handles overwritten in _connection while unreleased
    scope,                     \* position relative to a with-block
    enterOk,                   \* whether the open() of the last __enter__ connected
    enterHandle,               \* the handle that open() obtained (0 if none)
    directCalls,               \* open()/close() were called outside __enter__/__exit__
    lastOp,                    \* the last method that ran
    connectOk,                 \* whether the last underlying connect call succeeded
    lastRet,                   \* what the last method returned
    lastLog,                   \* what the last method logged
    \* ---- config/v1alpha1.py ----
    obj                        \* the last construction: class, arguments, outcome

daemonVars == <<pc, healthcheck, queues, autoscaling_action_queue, actionsQueueMaxSize,
                registration, registerCalls, submitted, platformArgs, worker,
                waitIdx, raising, returned>>

libvirtVars == <<protocol, hypervisor, user, address, port, readonly,
                 connection_string, connection, handles, released, dropped, scope,
                 enterOk, enterHandle, directCalls, lastOp, connectOk, lastRet, lastLog>>

configVars == <<obj>>

vars == <<daemonVars, libvirtVars, configVars>>

None == <<>>
Some(x) == <<x>>

-----------------------------------------------------------------------------
(* controller/daemon.py                                                    *)

\* Cap on the actions the model lets the producer leave outstanding.
MaxOutstanding == 3

\* manager.Queue() is created without a maxsize: 0, which means no limit.
ManagerQueueMaxsize == 0

\* The processes list, in the order it is built and waited on.
processes == <<"Platform", "ASG", "Metrics", "Reconcile">>

Workers == {processes[i] : i \in 1..Len(processes)}

\* Values register() can return: None, a falsy non-None value, registrations.
RegistrationValues == {"None", "empty", "regA", "regB"}

\* Python truthiness of a registration value.
Truthy(v) == v \notin {"None", "empty"}

\* The conditional expression guarding the Platform submission.
LaunchPlatform_isNotNone(v) == v # "None"

LaunchPlatform(v) == Truthy(v)

\* Future.result() of a finished future: returns, or re-raises the worker's error.
result_swallow(state) == "return"

result(state) == IF state = "err" THEN "raise" ELSE "return"

\* queue.Queue.full(): a maxsize of 0 or less never fills.
full(qsize, maxsize) == maxsize > 0 /\ qsize >= maxsize

\* Executor.__exit__ -> shutdown(wait=True): every submitted work item has ended.
ShutdownWaitDone(states) == \A s \in states : s # "running"

DaemonInit ==
    /\ pc = "start"
    /\ healthcheck = "none"
    /\ queues = {}
    /\ autoscaling_action_queue = 0
    /\ actionsQueueMaxSize \in {1, 2}
    /\ registration = "unset"
    /\ registerCalls = 0
    /\ submitted = [w \in Workers |-> 0]
    /\ platformArgs = None
    /\ worker = [w \in Workers |-> "none"]
    /\ waitIdx = 1
    /\ raising = FALSE
    /\ returned = "none"

\* main_process_tp.submit(healthcheck.run, ...): the thread starts running.
SubmitHealthcheck ==
    /\ UNCHANGED <<libvirtVars, configVars>>
    /\ pc = "start"
    /\ healthcheck' = "running"
    /\ pc' = "tp_exit"
    /\ UNCHANGED <<queues, autoscaling_action_queue, actionsQueueMaxSize, registration,
                   registerCalls, submitted, platformArgs, worker, waitIdx, raising,
                   returned>>

\* healthcheck.run ends (the server stops or fails to bind); it need not.
HealthcheckEnds ==
    /\ UNCHANGED <<libvirtVars, configVars>>
    /\ healthcheck = "running"
    /\ healthcheck' = "ended"
    /\ UNCHANGED <<pc, queues, autoscaling_action_queue, actionsQueueMaxSize,
                   registration, registerCalls, submitted, platformArgs, worker,
                   waitIdx, raising, returned>>

\* Leaving the with-block of the ThreadPoolExecutor: shutdown(wait=True).
ThreadPoolExit ==
    /\ UNCHANGED <<libvirtVars, configVars>>
    /\ pc = "tp_exit"
    /\ ShutdownWaitDone({healthcheck})
    /\ pc' = "queues"
    /\ UNCHANGED <<healthcheck, queues, autoscaling_action_queue, actionsQueueMaxSize,
                   registration, registerCalls, submitted, platformArgs, worker,
                   waitIdx, raising, returned>>

\* The two manager.Queue() calls.
CreateQueues ==
    /\ UNCHANGED <<libvirtVars, configVars>>
    /\ pc = "queues"
    /\ queues' = {"autoscaling_action_queue", "platform_message_queue"}
    /\ autoscaling_action_queue' = 0
    /\ pc' = "register"
    /\ UNCHANGED <<healthcheck, actionsQueueMaxSize, registration, registerCalls,
                   submitted, platformArgs, worker, waitIdx, raising, returned>>

\* The condition of the first list element is evaluated first: register().
Register ==
    /\ UNCHANGED <<libvirtVars, configVars>>
    /\ pc = "register"
    /\ \E v \in RegistrationValues : registration' = v
    /\ registerCalls' = registerCalls + 1
    /\ pc' = "platform"
    /\ UNCHANGED <<healthcheck, queues, autoscaling_action_queue, actionsQueueMaxSize,
                   submitted, platformArgs, worker, waitIdx, raising, returned>>

\* executor.submit(Platform(registration=registration, ...), platform_message_queue)
SubmitPlatform ==
    /\ UNCHANGED <<libvirtVars, configVars>>
    /\ pc = "platform"
    /\ LaunchPlatform(registration)
    /\ submitted' = [submitted EXCEPT !["Platform"] = @ + 1]
    /\ worker' = [worker EXCEPT !["Platform"] = "running"]
    /\ platformArgs' = Some([registration |-> registration,
                             queue |-> "platform_message_queue"])
    /\ pc' = "asg"
    /\ UNCHANGED <<healthcheck, queues, autoscaling_action_queue, actionsQueueMaxSize,
                   registration, registerCalls, waitIdx, raising, returned>>

\* ... else None
SkipPlatform ==
    /\ UNCHANGED <<libvirtVars, configVars>>
    /\ pc = "platform"
    /\ ~LaunchPlatform(registration)
    /\ pc' = "asg"
    /\ UNCHANGED <<healthcheck, queues, autoscaling_action_queue, actionsQueueMaxSize,
                   registration, registerCalls, submitted, platformArgs, worker,
                   waitIdx, raising, returned>>

\* The three unconditional executor.submit calls, in list order.
SubmitWorker(w, at, next) ==
    /\ UNCHANGED <<libvirtVars, configVars>>
    /\ pc = at
    /\ submitted' = [submitted EXCEPT ![w] = @ + 1]
    /\ worker' = [worker EXCEPT ![w] = "running"]
    /\ pc' = next
    /\ UNCHANGED <<healthcheck, queues, autoscaling_action_queue, actionsQueueMaxSize,
                   registration, registerCalls, platformArgs, waitIdx, raising,
                   returned>>

SubmitASG == SubmitWorker("ASG", "asg", "metrics")

SubmitMetrics == SubmitWorker("Metrics", "metrics", "reconcile")

SubmitReconcile == SubmitWorker("Reconcile", "reconcile", "wait")

\* for process in processes: if process is not None: process.result()
WaitResult ==
    /\ UNCHANGED <<libvirtVars, configVars>>
    /\ pc = "wait"
    /\ waitIdx <= Len(processes)
    /\ LET w == processes[waitIdx] IN
         IF submitted[w] = 0
         THEN /\ waitIdx' = waitIdx + 1
              /\ UNCHANGED <<pc, raising>>
         ELSE /\ worker[w] # "running"
              /\ IF result(worker[w]) = "raise"
                 THEN /\ raising' = TRUE
                      /\ pc' = "pool_exit"
                      /\ UNCHANGED waitIdx
                 ELSE /\ waitIdx' = waitIdx + 1
                      /\ UNCHANGED <<pc, raising>>
    /\ UNCHANGED <<healthcheck, queues, autoscaling_action_queue, actionsQueueMaxSize,
                   registration, registerCalls, submitted, platformArgs, worker,
                   returned>>

\* The loop is exhausted.
WaitDone ==
    /\ UNCHANGED <<libvirtVars, configVars>>
    /\ pc = "wait"
    /\ waitIdx > Len(processes)
    /\ pc' = "pool_exit"
    /\ UNCHANGED <<healthcheck, queues, autoscaling_action_queue, actionsQueueMaxSize,
                   registration, registerCalls, submitted, platformArgs, worker,
                   waitIdx, raising, returned>>

\* Leaving the with-block of the ProcessPoolExecutor and the Manager, then
\* return 0, or the propagation of the exception result() raised.
PoolExit ==
    /\ UNCHANGED <<libvirtVars, configVars>>
    /\ pc = "pool_exit"
    /\ ShutdownWaitDone({worker[w] : w \in {x \in Workers : submitted[x] > 0}})
    /\ returned' = IF raising THEN "exception" ELSE "0"
    /\ pc' = "done"
    /\ UNCHANGED <<healthcheck, queues, autoscaling_action_queue, actionsQueueMaxSize,
                   registration, registerCalls, submitted, platformArgs, worker,
                   waitIdx, raising>>

\* A worker's callable ends, normally or with an error.
WorkerEnds ==
    /\ UNCHANGED <<libvirtVars, configVars>>
    /\ \E w \in Workers, how \in {"ok", "err"} :
         /\ worker[w] = "running"
         /\ worker' = [worker EXCEPT ![w] = how]
    /\ UNCHANGED <<pc, healthcheck, queues, autoscaling_action_queue,
                   actionsQueueMaxSize, registration, registerCalls, submitted,
                   platformArgs, waitIdx, raising, returned>>

\* The Reconciliation Engine emits an Action: it skips the put when the queue
\* is full.
ReconcilePut ==
    /\ UNCHANGED <<libvirtVars, configVars>>
    /\ worker["Reconcile"] = "running"
    /\ ~full(autoscaling_action_queue, ManagerQueueMaxsize)
    /\ autoscaling_action_queue < MaxOutstanding
    /\ autoscaling_action_queue' = autoscaling_action_queue + 1
    /\ UNCHANGED <<pc, healthcheck, queues, actionsQueueMaxSize, registration,
                   registerCalls, submitted, platformArgs, worker, waitIdx, raising,
                   returned>>

\* The Action Executor takes the next Action off the queue.
ASGGet ==
    /\ UNCHANGED <<libvirtVars, configVars>>
    /\ worker["ASG"] = "running"
    /\ autoscaling_action_queue > 0
    /\ autoscaling_action_queue' = autoscaling_action_queue - 1
    /\ UNCHANGED <<pc, healthcheck, queues, actionsQueueMaxSize, registration,
                   registerCalls, submitted, platformArgs, worker, waitIdx, raising,
                   returned>>

\* The steps of the main thread running start().
StartStep ==
    \/ SubmitHealthcheck
    \/ ThreadPoolExit
    \/ CreateQueues
    \/ Register
    \/ SubmitPlatform
    \/ SkipPlatform
    \/ SubmitASG
    \/ SubmitMetrics
    \/ SubmitReconcile
    \/ WaitResult
    \/ WaitDone
    \/ PoolExit

DaemonNext ==
    \/ StartStep
    \/ HealthcheckEnds
    \/ WorkerEnds
    \/ ReconcilePut
    \/ ASGGet

-----------------------------------------------------------------------------
(* hypervisor/_base.py                                                     *)

\* Successful opens the model follows on one object.
MaxHandles == 2

\* Releases of one handle the model follows.
MaxReleases == 2

UpperCase == <<"A","B","C","D","E","F","G","H","I","J","K","L","M",
               "N","O","P","Q","R","S","T","U","V","W","X","Y","Z">>

LowerCase == <<"a","b","c","d","e","f","g","h","i","j","k","l","m",
               "n","o","p","q","r","s","t","u","v","w","x","y","z">>

\* str.lower()
lower(s) ==
    [i \in 1..Len(s) |->
        IF \E k \in 1..26 : UpperCase[k] = s[i]
        THEN LowerCase[CHOOSE k \in 1..26 : UpperCase[k] = s[i]]
        ELSE s[i]]

Digits == <<"0","1","2","3","4","5","6","7","8","9">>

\* Formatting of an int in an f-string.
RECURSIVE str_int(_)
str_int(n) == IF n < 10 THEN <<Digits[n + 1]>>
              ELSE str_int(n \div 10) \o <<Digits[(n % 10) + 1]>>

\* Formatting of an IPv4Address (its four octets) in an f-string.
str_address(a) ==
    str_int(a[1]) \o <<".">> \o str_int(a[2]) \o <<".">> \o str_int(a[3])
        \o <<".">> \o str_int(a[4])

\* Formatting of user (str | None) in an f-string.
str_user(u) == IF u = None THEN <<"N","o","n","e">> ELSE u[1]

\* Libvirt.__init__: the connection string.
connection_string_caseSensitive(p, h, u, a, n) ==
    IF p = <<"s","s","h">>
    THEN h \o <<"+","s","s","h",":","/","/">> \o str_user(u) \o <<"@">>
           \o str_address(a) \o <<":">> \o str_int(n)
           \o <<"/","s","y","s","t","e","m">>
    ELSE h \o <<"+","t","l","s",":","/","/">>
           \o str_address(a) \o <<":">> \o str_int(n)
           \o <<"/","s","y","s","t","e","m">>

Libvirt_connection_string(p, h, u, a, n) ==
    IF lower(p) = <<"s","s","h">>
    THEN h \o <<"+","s","s","h",":","/","/">> \o str_user(u) \o <<"@">>
           \o str_address(a) \o <<":">> \o str_int(n)
           \o <<"/","s","y","s","t","e","m">>
    ELSE h \o <<"+","t","l","s",":","/","/">>
           \o str_address(a) \o <<":">> \o str_int(n)
           \o <<"/","s","y","s","t","e","m">>

\* Constructor arguments the model draws from.
Protocols == {<<"s","s","h">>, <<"S","S","H">>, <<"S","s","h">>,
              <<"t","l","s">>, <<"T","L","S">>, <<"t","c","p">>, <<>>}

Hypervisors == {<<"q","e","m","u">>}

Users == {None, Some(<<"a","d","m","i","n">>)}

Addresses == {<<10, 0, 0, 5>>, <<192, 168, 1, 20>>}

Ports == {22, 16514}

\* Libvirt.open(): ok tells whether the libvirt connect call succeeds, fresh is
\* the handle it then returns.
open_noCatch(conn, ro, ok, fresh) ==
    IF ok
    THEN [connection |-> fresh, ret |-> "self",
          log |-> IF ro THEN "none" ELSE "info:Connected to host"]
    ELSE [connection |-> conn, ret |-> "raise:libvirtError", log |-> "none"]

open(conn, ro, ok, fresh) ==
    IF ok
    THEN [connection |-> fresh, ret |-> "self",
          log |-> IF ro THEN "none" ELSE "info:Connected to host"]
    ELSE [connection |-> conn, ret |-> "None",
          log |-> "error:Failed to connect to host"]

\* Libvirt.close(): the handle virConnectClose is called on (0: none) and the log.
close(conn) ==
    IF conn # 0
    THEN [release |-> conn, log |-> "info:Closed connection to host"]
    ELSE [release |-> 0, log |-> "error:No host connection to close"]

LibvirtInit ==
    /\ protocol \in Protocols
    /\ hypervisor \in Hypervisors
    /\ user \in Users
    /\ address \in Addresses
    /\ port \in Ports
    /\ readonly \in BOOLEAN
    /\ connection_string =
          Libvirt_connection_string(protocol, hypervisor, user, address, port)
    /\ connection = 0
    /\ handles = 0
    /\ released = [h \in 1..MaxHandles |-> 0]
    /\ dropped = {}
    /\ scope = "out"
    /\ enterOk = FALSE
    /\ enterHandle = 0
    /\ directCalls = FALSE
    /\ lastOp = "__init__"
    /\ connectOk = FALSE
    /\ lastRet = "None"
    /\ lastLog = "none"

\* The body of open(), shared by the direct call and __enter__.
OpenBody(ok) ==
    /\ ok => handles < MaxHandles
    /\ LET r == open(connection, readonly, ok, handles + 1) IN
         /\ connection' = r.connection
         /\ lastRet' = r.ret
         /\ lastLog' = r.log
    /\ handles' = IF ok THEN handles + 1 ELSE handles
    /\ dropped' = IF ok /\ connection # 0 /\ released[connection] = 0
                  THEN dropped \cup {connection} ELSE dropped
    /\ connectOk' = ok
    /\ UNCHANGED <<protocol, hypervisor, user, address, port, readonly,
                   connection_string, released>>

\* The body of close(), shared by the direct call and __exit__.
CloseBody ==
    /\ connection # 0 => released[connection] < MaxReleases
    /\ LET r == close(connection) IN
         /\ released' = IF r.release # 0
                        THEN [released EXCEPT ![r.release] = @ + 1]
                        ELSE released
         /\ lastLog' = r.log
    /\ UNCHANGED <<protocol, hypervisor, user, address, port, readonly,
                   connection_string, connection, handles, dropped, connectOk>>

\* A direct call of open().
Open ==
    /\ UNCHANGED <<daemonVars, configVars>>
    /\ \E ok \in BOOLEAN : OpenBody(ok)
    /\ lastOp' = "open"
    /\ directCalls' = TRUE
    /\ UNCHANGED <<scope, enterOk, enterHandle>>

\* A direct call of close().
Close ==
    /\ UNCHANGED <<daemonVars, configVars>>
    /\ CloseBody
    /\ lastOp' = "close"
    /\ lastRet' = "None"
    /\ directCalls' = TRUE
    /\ UNCHANGED <<scope, enterOk, enterHandle>>

\* __enter__: return self.open()
Enter ==
    /\ UNCHANGED <<daemonVars, configVars>>
    /\ scope = "out"
    /\ \E ok \in BOOLEAN :
         /\ OpenBody(ok)
         /\ enterOk' = ok
         /\ enterHandle' = IF ok THEN handles + 1 ELSE 0
    /\ scope' = "body"
    /\ lastOp' = "__enter__"
    /\ UNCHANGED directCalls

\* The guarded body ends, normally or with an error, and __exit__ runs
\* self.close(); __exit__ returns None, so an error of the body propagates.
Exit ==
    /\ UNCHANGED <<daemonVars, configVars>>
    /\ scope = "body"
    /\ CloseBody
    /\ \E bodyRaised \in BOOLEAN :
         lastRet' = IF bodyRaised THEN "raise:body" ELSE "None"
    /\ scope' = "out"
    /\ lastOp' = "__exit__"
    /\ UNCHANGED <<enterOk, enterHandle, directCalls>>

LibvirtNext ==
    \/ Open
    \/ Close
    \/ Enter
    \/ Exit

-----------------------------------------------------------------------------
(* config/v1alpha1.py                                                      *)

\* Longest configuration string the model draws.
MaxLen == 3

\* Characters of the configuration strings; A and B are the word characters.
Alphabet == {"$", "{", "}", "A", "B", "/"}

WordChars == {"A", "B"}

Strings == UNION {[1..k -> Alphabet] : k \in 0..MaxLen}

\* os.environ: A and B are set, every other name is unset.
environ == (<<"A">> :> <<"/", "$", "B">>) @@ (<<"B">> :> <<>>)

\* End of the run of word characters that starts at i (first index after it).
RECURSIVE WordEnd(_, _)
WordEnd(s, i) == IF i <= Len(s) /\ s[i] \in WordChars THEN WordEnd(s, i + 1) ELSE i

\* First index k >= i with s[k] = c, or 0.
RECURSIVE Find(_, _, _)
Find(s, c, i) == IF i > Len(s) THEN 0
                 ELSE IF s[i] = c THEN i ELSE Find(s, c, i + 1)

\* re.search(r'\$(\w+|\{[^}]*\})', path, i): the leftmost match from i on, as
\* its first index, the index after it and its group 1; i = 0 when none.
RECURSIVE search(_, _)
search(s, i) ==
    IF i > Len(s) THEN [i |-> 0, j |-> 0, group |-> <<>>]
    ELSE IF s[i] = "$" /\ i + 1 <= Len(s) /\ s[i + 1] \in WordChars
    THEN [i |-> i, j |-> WordEnd(s, i + 1),
          group |-> SubSeq(s, i + 1, WordEnd(s, i + 1) - 1)]
    ELSE IF s[i] = "$" /\ i + 1 <= Len(s) /\ s[i + 1] = "{"
            /\ Find(s, "}", i + 2) # 0
    THEN [i |-> i, j |-> Find(s, "}", i + 2) + 1,
          group |-> SubSeq(s, i + 1, Find(s, "}", i + 2))]
    ELSE search(s, i + 1)

\* The loop of os.path.expandvars from index i on.
RECURSIVE expandvars_from(_, _)
expandvars_from(path, i) ==
    LET m == search(path, i) IN
    IF m.i = 0 THEN path
    ELSE LET g == m.group
             name == IF Len(g) >= 2 /\ g[1] = "{" /\ g[Len(g)] = "}"
                     THEN SubSeq(g, 2, Len(g) - 1) ELSE g
         IN IF name \in DOMAIN environ
            THEN LET head == SubSeq(path, 1, m.i - 1) \o environ[name] IN
                 expandvars_from(head \o SubSeq(path, m.j, Len(path)), Len(head) + 1)
            ELSE expandvars_from(path, m.j)

\* os.path.expandvars
expandvars(path) ==
    IF \A k \in 1..Len(path) : path[k] # "$" THEN path ELSE expandvars_from(path, 1)

\* Connection.__attrs_post_init__ -> Connection.expand
Connection_expand(self) ==
    [outcome |-> "constructed",
     self |-> [url |-> expandvars(self.url),
               database |-> expandvars(self.database),
               credentials |->
                  [username |-> expandvars(self.credentials.username),
                   password |-> expandvars(self.credentials.password)]]]

\* Certificates.__attrs_post_init__ -> Certificates.expand
Certificates_expand(self) ==
    [outcome |-> "constructed", self |-> [path |-> expandvars(self.path)]]

\* Platform.__attrs_post_init__ -> Platform.expand: each statement reads an
\* attribute of self before it assigns; reading one the class does not define
\* raises AttributeError.
Platform_expand(self) ==
    IF "platform" \notin DOMAIN self
    THEN [outcome |-> "AttributeError", self |-> self]
    ELSE IF "cacert" \notin DOMAIN self
    THEN [outcome |-> "AttributeError",
          self |-> [self EXCEPT !.platform = expandvars(self.platform),
                                !.token = expandvars(self.token)]]
    ELSE [outcome |-> "constructed",
          self |-> [self EXCEPT !.platform = expandvars(self.platform),
                                !.token = expandvars(self.token),
                                !.cacert = expandvars(self.cacert)]]

\* Network.__attrs_post_init__
Network_post_init(dhcp, addressRange) ==
    IF dhcp /\ addressRange = None THEN "sys.exit(1)" ELSE "constructed"

\* Field values the constructions draw from.
ShortStrings == {<<"$", "A">>, <<"B">>}

AddressRanges == {None, Some(<<>>), Some(<<"2", "-", "9">>)}

ConfigInit == obj = [class |-> "none"]

ConstructConnection ==
    /\ obj.class = "none"
    /\ \E url \in Strings, database \in ShortStrings,
          username \in ShortStrings, password \in ShortStrings :
         LET args == [url |-> url, database |-> database,
                      credentials |-> [username |-> username,
                                       password |-> password]]
             r == Connection_expand(args)
         IN obj' = [class |-> "Connection", args |-> args,
                    outcome |-> r.outcome, self |-> r.self]
    /\ UNCHANGED <<daemonVars, libvirtVars>>

ConstructCertificates ==
    /\ obj.class = "none"
    /\ \E path \in Strings :
         LET args == [path |-> path]
             r == Certificates_expand(args)
         IN obj' = [class |-> "Certificates", args |-> args,
                    outcome |-> r.outcome, self |-> r.self]
    /\ UNCHANGED <<daemonVars, libvirtVars>>

ConstructPlatform ==
    /\ obj.class = "none"
    /\ \E domain \in ShortStrings, token \in ShortStrings,
          path \in ShortStrings, size \in {1, 2} :
         LET args == [domain |-> domain, token |-> token,
                      certificates |-> Certificates_expand([path |-> path]).self,
                      actionsQueueMaxSize |-> size]
             r == Platform_expand(args)
         IN obj' = [class |-> "Platform", args |-> args,
                    outcome |-> r.outcome, self |-> r.self]
    /\ UNCHANGED <<daemonVars, libvirtVars>>

ConstructNetwork ==
    /\ obj.class = "none"
    /\ \E dhcp \in BOOLEAN, addressRange \in AddressRanges :
         obj' = [class |-> "Network",
                 args |-> [dhcp |-> dhcp, addressRange |-> addressRange],
                 outcome |-> Network_post_init(dhcp, addressRange)]
    /\ UNCHANGED <<daemonVars, libvirtVars>>

ConfigNext ==
    \/ ConstructConnection
    \/ ConstructCertificates
    \/ ConstructPlatform
    \/ ConstructNetwork

-----------------------------------------------------------------------------
(* Specifications                                                          *)

\* One Libvirt object that is constructed and then left alone.
LibvirtIdle ==
    /\ LibvirtInit
    /\ protocol = <<"s","s","h">>
    /\ user = None
    /\ address = <<10, 0, 0, 5>>
    /\ port = 22
    /\ readonly = FALSE

\* A call of start() with one configuration.
DaemonIdle == DaemonInit /\ actionsQueueMaxSize = 1

\* start() and its workers.
Init == DaemonInit /\ LibvirtIdle /\ ConfigInit

Next == DaemonNext

Spec == Init /\ [][Next]_vars

\* The main thread keeps running while a step of start() is possible; nothing
\* makes healthcheck.run or a worker end.
FairSpec == Init /\ [][Next]_vars /\ WF_vars(StartStep)

\* One Libvirt object under any sequence of calls.
LibvirtSpecInit == DaemonIdle /\ LibvirtInit /\ ConfigInit

LibvirtSpec == LibvirtSpecInit /\ [][LibvirtNext]_vars

\* Construction of one configuration object.
ConfigSpecInit == DaemonIdle /\ LibvirtIdle /\ ConfigInit

ConfigSpec == ConfigSpecInit /\ [][ConfigNext]_vars

-----------------------------------------------------------------------------
(* Claims about start()                                                    *)

\* The processes list has been built.
ListBuilt == pc \in {"wait", "pool_exit", "done"}

\* C1: register() is called once, before any worker is submitted; after a falsy
\* registration the ASG, Metrics and Reconcile workers are each submitted
\* exactly once and no Platform worker is; after a registration value the
\* Platform worker is submitted too, with that value and the platform message
\* queue.
C1_RegistrationDecidesPlatform ==
    /\ registerCalls <= 1
    /\ (\E w \in Workers : submitted[w] > 0) => registerCalls = 1
    /\ \A w \in Workers : submitted[w] <= 1
    /\ ListBuilt =>
         /\ registerCalls = 1
         /\ submitted["ASG"] = 1
         /\ submitted["Metrics"] = 1
         /\ submitted["Reconcile"] = 1
         /\ IF registration \in {"None", "empty"}
            THEN submitted["Platform"] = 0 /\ platformArgs = None
            ELSE /\ submitted["Platform"] = 1
                 /\ platformArgs = Some([registration |-> registration,
                                         queue |-> "platform_message_queue"])

\* A falsy registration that is not None, with the three other workers launched.
C1_Witness ==
    /\ ListBuilt
    /\ registration = "empty"
    /\ submitted["Reconcile"] = 1
    /\ submitted["Platform"] = 0

\* C2: a health check that is still running does not hold start-up back: from
\* any state where healthcheck.run is running, either it ends or start() gets
\* to create the queues, call register() and submit the workers.
C2_HealthcheckDoesNotBlock ==
    (healthcheck = "running") ~>
        \/ healthcheck # "running"
        \/ /\ queues = {"autoscaling_action_queue", "platform_message_queue"}
           /\ registerCalls = 1
           /\ submitted["Reconcile"] = 1

\* C3: start() returns 0 only when every worker it submitted has completed,
\* and none of them ended with an error.
C3_ReturnZeroAfterAllWorkers ==
    returned = "0" =>
        \A w \in Workers : submitted[w] > 0 => worker[w] = "ok"

\* start() returned 0 with all four workers launched.
C3_Witness ==
    /\ returned = "0"
    /\ \A w \in Workers : submitted[w] = 1

\* C9: the number of actions outstanding on the action queue never exceeds
\* Platform.actionsQueueMaxSize.
C9_ActionQueueBounded == autoscaling_action_queue <= actionsQueueMaxSize

-----------------------------------------------------------------------------
(* Claims about Libvirt                                                    *)

\* C4: in scoped use (only __enter__ and __exit__ are called), the close() run
\* by __exit__ after a failed open() only logs that there is nothing to close,
\* and after a successful open() leaves the obtained handle released exactly
\* once.
C4_ScopedGuardReleasesOnce ==
    (lastOp = "__exit__" /\ ~directCalls) =>
        IF enterOk
        THEN released[enterHandle] = 1
        ELSE lastLog = "error:No host connection to close"

\* C5: an open() whose connect call fails returns None, logs the failure,
\* raises nothing and leaves the object with no handle it did not hold before;
\* an open() whose connect call succeeds returns self with the new handle
\* stored.
C5_OpenNeverPropagates ==
    [][lastOp' \in {"open", "__enter__"} =>
          IF connectOk'
          THEN /\ lastRet' = "self"
               /\ handles' = handles + 1
               /\ connection' = handles'
          ELSE /\ lastRet' = "None"
               /\ lastLog' = "error:Failed to connect to host"
               /\ connection' \in {0, connection}
               /\ handles' = handles]_vars

\* A failed read-only open() on an object that already holds a handle.
C5_Witness ==
    /\ lastOp = "open"
    /\ ~connectOk
    /\ readonly
    /\ connection # 0
    /\ lastRet = "None"

\* The protocol values that read ssh in any letter case.
SshAnyCase ==
    {<<a, b, c>> : a \in {"s", "S"}, b \in {"s", "S"}, c \in {"h", "H"}}

\* <hypervisor>+ssh://<user>@<address>:<port>/system
SshForm ==
    hypervisor \o <<"+","s","s","h",":","/","/">> \o str_user(user) \o <<"@">>
        \o str_address(address) \o <<":">> \o str_int(port)
        \o <<"/","s","y","s","t","e","m">>

\* <hypervisor>+tls://<address>:<port>/system
TlsForm ==
    hypervisor \o <<"+","t","l","s",":","/","/">>
        \o str_address(address) \o <<":">> \o str_int(port)
        \o <<"/","s","y","s","t","e","m">>

\* C8 as stated: the ssh form exactly when the protocol is ssh, the tls form
\* for every other protocol value, unchanged by open() and close().
C8_SshOnlyForLowercaseSsh ==
    connection_string = IF protocol = <<"s","s","h">> THEN SshForm ELSE TlsForm

\* C8 amended: the ssh form when the protocol is ssh in any letter case, the
\* tls form for every other protocol value, unchanged by open() and close().
C8_SshForAnyCaseOfSsh ==
    connection_string = IF protocol \in SshAnyCase THEN SshForm ELSE TlsForm

\* An object built with protocol SSH, after an open() and a close().
C8_Witness ==
    /\ protocol = <<"S","S","H">>
    /\ lastOp = "close"
    /\ connection # 0
    /\ released[connection] = 1

\* C10: under any sequence of open() and close() calls no handle is released
\* more than once and no held, unreleased handle is replaced.
C10_NoDoubleReleaseNoLeak ==
    /\ \A h \in 1..MaxHandles : released[h] <= 1
    /\ dropped = {}

-----------------------------------------------------------------------------
(* Claims about the configuration classes                                  *)

\* C6: constructing a Network terminates the process exactly when dhcp is true
\* and addressRange is absent or empty.
C6_DhcpNeedsNonEmptyRange ==
    obj.class = "Network" =>
        (obj.outcome = "sys.exit(1)" <=>
            (obj.args.dhcp /\ obj.args.addressRange \in {None, Some(<<>>)}))

\* C7: constructing a Connection, a Certificates or a Platform succeeds, and
\* every expandable field then holds the environment expansion of its argument.
C7_ConstructionExpands ==
    /\ obj.class \in {"Connection", "Certificates", "Platform"} =>
          obj.outcome = "constructed"
    /\ obj.class = "Connection" =>
          /\ obj.self.url = expandvars(obj.args.url)
          /\ obj.self.database = expandvars(obj.args.database)
          /\ obj.self.credentials.username =
                expandvars(obj.args.credentials.username)
          /\ obj.self.credentials.password =
                expandvars(obj.args.credentials.password)
    /\ obj.class = "Certificates" =>
          obj.self.path = expandvars(obj.args.path)
    /\ obj.class = "Platform" =>
          /\ obj.self.domain = expandvars(obj.args.domain)
          /\ obj.self.token = expandvars(obj.args.token)

====
